---- MODULE Spec2Model ----
(***************************************************************************)
(* Workout logger: the Workout -> Exercise -> Set store (prisma/schema)    *)
(* and the route handlers POST save-workout, GET get-workout/[id],         *)
(* PUT update-workout/[id] and DELETE delete-workout/[id].                 *)
(*                                                                         *)
(* The store is the three tables of the schema with their autoincrement   *)
(* counters.  A handler is an operator from the store and the request to   *)
(* a response and the store it leaves; an action runs one handler.         *)
(***************************************************************************)
EXTENDS Integers, Sequences, FiniteSets, TLC

VARIABLES db, clock, last, deleted, created, inflight, form, edit, node

vars == <<db, clock, last, deleted, created, inflight, form, edit, node>>

(***************************************************************************)
(* Bounds of the model.                                                    *)
(***************************************************************************)
\* autoincrement counters stop handing out ids above these
MaxWorkouts == 2
MaxExercises == 2
MaxSets == 2
\* longest entries list of a POST body
MaxEntries == 2
\* the clock read by new Date() shows 1 to MaxTime
MaxTime == 2
\* longest sets list and longest exercises list of a PUT body
MaxPutSets == 2
MaxPutExercises == 2

\* deleted: the ids whose DELETE was answered 200; created: for each stored
\* workout, the clock reading of the POST that created it, as SpecHistory
\* records it; inflight: the requests SpecConcurrent handles step by step;
\* form: the state of the create page; edit: the state of the edit page;
\* node: the server process with its evaluations of lib/prisma

(***************************************************************************)
(* Optional JSON members: <<>> is an absent member (undefined), <<v>> a    *)
(* present one.                                                            *)
(***************************************************************************)
None == <<>>

Some(v) == <<v>>

\* the sequences over S of length at most n
SeqUpTo(S, n) == UNION {[1..k -> S] : k \in 0..n}

RECURSIVE SortById(_)
\* rows in primary-key order, the order the store returns them in
SortById(S) ==
  IF S = {} THEN <<>>
  ELSE LET m == CHOOSE x \in S : \A y \in S : x.id <= y.id
       IN <<m>> \o SortById(S \ {m})

(***************************************************************************)
(* parseInt(id, 10) on a path segment, a sequence of characters: leading   *)
(* white space is skipped, one sign is read, then the longest run of       *)
(* decimal digits; NaN when that run is empty.                             *)
(***************************************************************************)
NaN == <<>>

Digits == <<"0", "1", "2", "3", "4", "5", "6", "7", "8", "9">>

IsDigit(c) == \E i \in 1..Len(Digits) : Digits[i] = c

DigitValue(c) == (CHOOSE i \in 1..Len(Digits) : Digits[i] = c) - 1

RECURSIVE SkipSpaces(_)
SkipSpaces(s) ==
  IF s # <<>> /\ Head(s) = " " THEN SkipSpaces(Tail(s)) ELSE s

RECURSIVE DigitRun(_)
\* the longest prefix of s made of digits
DigitRun(s) ==
  IF s # <<>> /\ IsDigit(Head(s)) THEN <<Head(s)>> \o DigitRun(Tail(s)) ELSE <<>>

RECURSIVE DecimalValue(_, _)
DecimalValue(s, acc) ==
  IF s = <<>> THEN acc ELSE DecimalValue(Tail(s), 10 * acc + DigitValue(Head(s)))

parseInt(seg) ==
  LET t == SkipSpaces(seg)
      neg == t # <<>> /\ Head(t) = "-"
      u == IF t # <<>> /\ Head(t) \in {"-", "+"} THEN Tail(t) ELSE t
      run == DigitRun(u)
  IN IF run = <<>> THEN NaN
     ELSE Some(IF neg THEN 0 - DecimalValue(run, 0) ELSE DecimalValue(run, 0))

isNaN(n) == n = NaN

(***************************************************************************)
(* Dates.  The store keeps a timestamp, an instant counted in clock ticks;  *)
(* the API carries an ISO-8601 string, a local time with its offset from   *)
(* UTC.                                                                    *)
(***************************************************************************)
\* Date.prototype.toISOString: the instant as UTC time, offset Z
toISOString(t) == [local |-> t, offset |-> 0]

\* NewDate reading the local time as if it were UTC
NewDateIgnoringOffset(s) == s.local

\* new Date(string): the instant the string denotes
NewDate(s) == s.local - s.offset

(***************************************************************************)
(* The store.                                                              *)
(***************************************************************************)
EmptyDb ==
  [workouts |-> {}, exercises |-> {}, sets |-> {},
   nextWorkoutId |-> 1, nextExerciseId |-> 1, nextSetId |-> 1]

\* prisma.workout.findUnique({ where: { id } }): the rows with that id
findUnique(d, id) == {w \in d.workouts : w.id = id}

ExercisesOf(d, wid) == {e \in d.exercises : e.workoutId = wid}

SetsOf(d, eid) == {s \in d.sets : s.exerciseId = eid}

\* include: { exercises: { include: { sets: true } } }, mapped to the response
WorkoutResponse(d, w) ==
  [id |-> w.id,
   date |-> toISOString(w.date),
   exercises |->
     LET es == SortById(ExercisesOf(d, w.id))
     IN [i \in 1..Len(es) |->
           [id |-> es[i].id,
            name |-> es[i].name,
            sets |->
              LET ss == SortById(SetsOf(d, es[i].id))
              IN [j \in 1..Len(ss) |->
                    [id |-> ss[j].id, reps |-> ss[j].reps, weight |-> ss[j].weight]]]]]

ErrorResponse(status, msg, d) == [status |-> status, body |-> [error |-> msg], db |-> d]

(***************************************************************************)
(* POST /api/save-workout                                                  *)
(***************************************************************************)
\* a JSON value that is a list
IsArray(v) == v.type = "array"

\* Prisma rejects a create whose required scalar (name, reps, weight) is
\* undefined before it sends any query
CreateArgsValid(entries) ==
  \A i \in 1..Len(entries) :
    /\ entries[i].exercise # None
    /\ entries[i].reps # None
    /\ entries[i].weight # None

\* CreateWorkout, but entries of one exercise name share one Exercise
CreateWorkoutMerging(d, entries, now) ==
  LET wid == d.nextWorkoutId
      n == Len(entries)
      first(i) == CHOOSE k \in 1..n :
                    /\ entries[k].exercise = entries[i].exercise
                    /\ \A m \in 1..n : entries[m].exercise = entries[i].exercise => k <= m
      firsts == {first(i) : i \in 1..n}
      rank(k) == Cardinality({m \in firsts : m < k})
  IN [workouts |-> d.workouts \cup {[id |-> wid, date |-> now]},
      exercises |-> d.exercises \cup
        {[id |-> d.nextExerciseId + rank(k),
          name |-> entries[k].exercise[1],
          workoutId |-> wid] : k \in firsts},
      sets |-> d.sets \cup
        {[id |-> d.nextSetId + i - 1,
          reps |-> entries[i].reps[1],
          weight |-> entries[i].weight[1],
          exerciseId |-> d.nextExerciseId + rank(first(i))] : i \in 1..n},
      nextWorkoutId |-> wid + 1,
      nextExerciseId |-> d.nextExerciseId + Cardinality(firsts),
      nextSetId |-> d.nextSetId + n]

\* prisma.workout.create with the nested creates: one Exercise per entry, each
\* with one Set, ids taken from the autoincrement counters in entry order
CreateWorkout(d, entries, now) ==
  LET wid == d.nextWorkoutId
      n == Len(entries)
  IN [workouts |-> d.workouts \cup {[id |-> wid, date |-> now]},
      exercises |-> d.exercises \cup
        {[id |-> d.nextExerciseId + i - 1,
          name |-> entries[i].exercise[1],
          workoutId |-> wid] : i \in 1..n},
      sets |-> d.sets \cup
        {[id |-> d.nextSetId + i - 1,
          reps |-> entries[i].reps[1],
          weight |-> entries[i].weight[1],
          exerciseId |-> d.nextExerciseId + i - 1] : i \in 1..n},
      nextWorkoutId |-> wid + 1,
      nextExerciseId |-> d.nextExerciseId + n,
      nextSetId |-> d.nextSetId + n]

\* PostBodyValid without the length check
PostBodyValidAnyLength(body) ==
  /\ body.type # "null"
  /\ body.workout # None
  /\ IsArray(body.workout[1].entries)

\* the body is not falsy, has a workout, and workout.entries is a non-empty list
PostBodyValid(body) ==
  /\ body.type # "null"
  /\ body.workout # None
  /\ IsArray(body.workout[1].entries)
  /\ Len(body.workout[1].entries.items) # 0

POST(d, body, now) ==
  IF ~PostBodyValid(body)
  THEN ErrorResponse(400, "Invalid workout data", d)
  ELSE LET entries == body.workout[1].entries.items
       IN IF ~CreateArgsValid(entries)
          THEN ErrorResponse(500, "Error saving workout", d)
          ELSE LET d2 == CreateWorkout(d, entries, now)
                   w == CHOOSE x \in d2.workouts : x.id = d.nextWorkoutId
               IN [status |-> 200, body |-> WorkoutResponse(d2, w), db |-> d2]

(***************************************************************************)
(* GET /api/get-workout/[id]                                               *)
(***************************************************************************)
\* GET with findUnique including the exercises but not their sets
GETWithoutSets(d, seg) ==
  LET workoutId == parseInt(seg)
  IN IF isNaN(workoutId)
     THEN ErrorResponse(400, "Invalid workout ID", d)
     ELSE LET found == findUnique(d, workoutId[1])
          IN IF found = {}
             THEN ErrorResponse(404, "Workout not found", d)
             ELSE LET r == WorkoutResponse(d, CHOOSE w \in found : TRUE)
                  IN [status |-> 200,
                      body |-> [r EXCEPT !.exercises =
                                  [i \in DOMAIN @ |-> [@[i] EXCEPT !.sets = <<>>]]],
                      db |-> d]

GET(d, seg) ==
  LET workoutId == parseInt(seg)
  IN IF isNaN(workoutId)
     THEN ErrorResponse(400, "Invalid workout ID", d)
     ELSE LET found == findUnique(d, workoutId[1])
          IN IF found = {}
             THEN ErrorResponse(404, "Workout not found", d)
             ELSE [status |-> 200,
                   body |-> WorkoutResponse(d, CHOOSE w \in found : TRUE),
                   db |-> d]

(***************************************************************************)
(* GET /api/get-workouts                                                   *)
(***************************************************************************)
\* findMany in primary-key order
FindManyById(d) == {SortById(d.workouts)}

\* prisma.workout.findMany({ orderBy: { date: 'desc' } }): the workouts, each
\* once, later dates first; the store may return equal dates in either order
FindManyByDateDesc(d) ==
  {ws \in [1..Cardinality(d.workouts) -> d.workouts] :
     /\ \A i, j \in DOMAIN ws : i # j => ws[i] # ws[j]
     /\ \A i, j \in DOMAIN ws : i < j => ws[i].date >= ws[j].date}

\* the response for the order ws in which the store returned the workouts
GETWorkouts(d, ws) ==
  [status |-> 200,
   body |-> [type |-> "array", items |-> [i \in DOMAIN ws |-> WorkoutResponse(d, ws[i])]],
   db |-> d]

(***************************************************************************)
(* DELETE /api/delete-workout/[id]                                         *)
(***************************************************************************)
\* CascadeDelete under foreign keys that do not cascade
DeleteWithoutCascade(d, wid) ==
  [d EXCEPT !.workouts = {w \in @ : w.id # wid}]

\* CascadeDelete when only the exercises' foreign key cascades
DeleteExercisesOnly(d, wid) ==
  [d EXCEPT !.workouts = {w \in @ : w.id # wid},
            !.exercises = {e \in @ : e.workoutId # wid}]

\* CascadeDelete on tables whose counters fall back to the greatest id left
CascadeDeleteReleasingIds(d, wid) ==
  LET gone == {e.id : e \in {x \in d.exercises : x.workoutId = wid}}
      ws == {w \in d.workouts : w.id # wid}
      es == {e \in d.exercises : e.workoutId # wid}
      ss == {x \in d.sets : x.exerciseId \notin gone}
      after(rows) == IF rows = {} THEN 1
                     ELSE 1 + CHOOSE m \in {r.id : r \in rows} : \A r \in rows : r.id <= m
  IN [workouts |-> ws, exercises |-> es, sets |-> ss,
      nextWorkoutId |-> after(ws),
      nextExerciseId |-> after(es),
      nextSetId |-> after(ss)]

\* the rows left by DELETE FROM workouts WHERE id = wid: both foreign keys are
\* ON DELETE CASCADE
CascadeDelete(d, wid) ==
  LET gone == {e.id : e \in ExercisesOf(d, wid)}
  IN [d EXCEPT !.workouts = {w \in @ : w.id # wid},
               !.exercises = {e \in @ : e.workoutId # wid},
               !.sets = {s \in @ : s.exerciseId \notin gone}]

\* prisma.workout.delete({ where: { id } }): throws when no row has the id
DeleteWrite(d, wid) ==
  IF findUnique(d, wid) = {}
  THEN ErrorResponse(500, "Error deleting workout", d)
  ELSE [status |-> 200,
        body |-> [message |-> "Workout deleted successfully."],
        db |-> CascadeDelete(d, wid)]

\* the id check and the existence check; status 0: go on to the delete
DeleteFind(d, seg) ==
  LET workoutId == parseInt(seg)
  IN IF isNaN(workoutId)
     THEN ErrorResponse(400, "Invalid workout ID", d)
     ELSE IF findUnique(d, workoutId[1]) = {}
          THEN ErrorResponse(404, "Workout not found", d)
          ELSE [status |-> 0, body |-> [workoutId |-> workoutId[1]], db |-> d]

DELETE(d, seg) ==
  LET f == DeleteFind(d, seg)
  IN IF f.status # 0 THEN f ELSE DeleteWrite(d, f.body.workoutId)

(***************************************************************************)
(* PUT /api/update-workout/[id]                                            *)
(***************************************************************************)
\* Prisma checks the whole argument before it sends any query: a nested upsert
\* whose where is { id: undefined } names no unique field and is rejected
UpdateArgsValid(body) ==
  body.exercises # None =>
    \A i \in 1..Len(body.exercises[1]) :
      LET e == body.exercises[1][i]
      IN /\ e.id # None
         /\ \A j \in 1..Len(e.sets) : e.sets[j].id # None

\* sets: { create: [...] } under a new exercise
RECURSIVE CreateSets(_, _, _)
CreateSets(d, eid, ss) ==
  IF ss = <<>> THEN d
  ELSE CreateSets(
         [d EXCEPT !.sets = @ \cup {[id |-> d.nextSetId,
                                     reps |-> Head(ss).reps,
                                     weight |-> Head(ss).weight,
                                     exerciseId |-> eid]},
                   !.nextSetId = @ + 1],
         eid, Tail(ss))

\* UpsertSet adding the supplied numbers to the stored ones
UpsertSetAdding(d, eid, s) ==
  IF \E row \in d.sets : row.id = s.id[1] /\ row.exerciseId = eid
  THEN [d EXCEPT !.sets =
          {IF row.id = s.id[1]
           THEN [row EXCEPT !.reps = @ + s.reps, !.weight = @ + s.weight]
           ELSE row : row \in @}]
  ELSE CreateSets(d, eid, <<s>>)

\* one nested set upsert under exercise eid: the set of that exercise with the
\* given id is updated, otherwise a set is created under a fresh id
UpsertSet(d, eid, s) ==
  IF \E row \in d.sets : row.id = s.id[1] /\ row.exerciseId = eid
  THEN [d EXCEPT !.sets =
          {IF row.id = s.id[1]
           THEN [row EXCEPT !.reps = s.reps, !.weight = s.weight]
           ELSE row : row \in @}]
  ELSE CreateSets(d, eid, <<s>>)

RECURSIVE UpsertSets(_, _, _)
UpsertSets(d, eid, ss) ==
  IF ss = <<>> THEN d
  ELSE UpsertSets(UpsertSet(d, eid, Head(ss)), eid, Tail(ss))

\* UpsertExercise as a nested create: the id is never looked up
UpsertExerciseCreateOnly(d, wid, e) ==
  CreateSets(
    [d EXCEPT !.exercises = @ \cup {[id |-> d.nextExerciseId,
                                     name |-> e.name,
                                     workoutId |-> wid]},
              !.nextExerciseId = @ + 1],
    d.nextExerciseId, e.sets)

\* UpsertExercise looking the exercise up by id alone, whatever its workout
UpsertExerciseById(d, wid, e) ==
  IF \E row \in d.exercises : row.id = e.id[1]
  THEN UpsertSets(
         [d EXCEPT !.exercises =
            {IF row.id = e.id[1] THEN [row EXCEPT !.name = e.name] ELSE row
               : row \in @}],
         e.id[1], e.sets)
  ELSE CreateSets(
         [d EXCEPT !.exercises = @ \cup {[id |-> d.nextExerciseId,
                                          name |-> e.name,
                                          workoutId |-> wid]},
                   !.nextExerciseId = @ + 1],
         d.nextExerciseId, e.sets)

\* one nested exercise upsert under workout wid
UpsertExercise(d, wid, e) ==
  IF \E row \in d.exercises : row.id = e.id[1] /\ row.workoutId = wid
  THEN UpsertSets(
         [d EXCEPT !.exercises =
            {IF row.id = e.id[1] THEN [row EXCEPT !.name = e.name] ELSE row
               : row \in @}],
         e.id[1], e.sets)
  ELSE CreateSets(
         [d EXCEPT !.exercises = @ \cup {[id |-> d.nextExerciseId,
                                          name |-> e.name,
                                          workoutId |-> wid]},
                   !.nextExerciseId = @ + 1],
         d.nextExerciseId, e.sets)

RECURSIVE UpsertExercises(_, _, _)
UpsertExercises(d, wid, es) ==
  IF es = <<>> THEN d
  ELSE UpsertExercises(UpsertExercise(d, wid, Head(es)), wid, Tail(es))

\* UpdateWorkout as a full replace: exercises of the workout that the list
\* does not supply are deleted with their sets
UpdateWorkoutReplacing(d, wid, body) ==
  LET d1 == IF body.date # None
            THEN [d EXCEPT !.workouts =
                    {IF w.id = wid THEN [w EXCEPT !.date = NewDate(body.date[1])]
                     ELSE w : w \in @}]
            ELSE d
  IN IF body.exercises # None
     THEN LET es == body.exercises[1]
              dropped == {e \in ExercisesOf(d1, wid) :
                            \A i \in 1..Len(es) : es[i].id # Some(e.id)}
              d2 == [d1 EXCEPT !.exercises = @ \ dropped,
                               !.sets = {s \in @ : s.exerciseId \notin {e.id : e \in dropped}}]
          IN UpsertExercises(d2, wid, es)
     ELSE d1

\* updateData applied by prisma.workout.update in one transaction
UpdateWorkout(d, wid, body) ==
  LET d1 == IF body.date # None
            THEN [d EXCEPT !.workouts =
                    {IF w.id = wid THEN [w EXCEPT !.date = NewDate(body.date[1])]
                     ELSE w : w \in @}]
            ELSE d
  IN IF body.exercises # None
     THEN UpsertExercises(d1, wid, body.exercises[1])
     ELSE d1

\* PutWrite when the date is written on its own, before the nested upserts
PutWriteDateFirst(d, wid, body) ==
  IF findUnique(d, wid) = {}
  THEN ErrorResponse(500, "Error updating workout", d)
  ELSE IF ~UpdateArgsValid(body)
       THEN ErrorResponse(500, "Error updating workout",
                          UpdateWorkout(d, wid, [body EXCEPT !.exercises = None]))
       ELSE LET d2 == UpdateWorkout(d, wid, body)
            IN [status |-> 200,
                body |-> WorkoutResponse(d2, CHOOSE w \in d2.workouts : w.id = wid),
                db |-> d2]

\* prisma.workout.update and the response; throws (caught: 500) on an argument
\* Prisma rejects and when no workout has the id
PutWrite(d, wid, body) ==
  IF ~UpdateArgsValid(body) \/ findUnique(d, wid) = {}
  THEN ErrorResponse(500, "Error updating workout", d)
  ELSE LET d2 == UpdateWorkout(d, wid, body)
       IN [status |-> 200,
           body |-> WorkoutResponse(d2, CHOOSE w \in d2.workouts : w.id = wid),
           db |-> d2]

\* PutFind without the existence check
PutFindSkipped(d, workoutId) ==
  [status |-> 0, body |-> [workoutId |-> workoutId], db |-> d]

\* the existence check; status 0: go on to the update
PutFind(d, workoutId) ==
  IF findUnique(d, workoutId) = {}
  THEN ErrorResponse(404, "Workout not found", d)
  ELSE [status |-> 0, body |-> [workoutId |-> workoutId], db |-> d]

\* the handler once the id has parsed and the body has been read
PUT(d, workoutId, body) ==
  LET f == PutFind(d, workoutId)
  IN IF f.status # 0 THEN f ELSE PutWrite(d, workoutId, body)

(***************************************************************************)
(* Requests.                                                               *)
(***************************************************************************)
\* the entries a POST body is built from
EntryInputs ==
  {[exercise |-> Some("Squat"), weight |-> Some(100), reps |-> Some(5)],
   [exercise |-> Some("Bench Press"), weight |-> Some(60), reps |-> Some(8)]}

\* entries that lack exercise, weight or reps
DeficientEntries ==
  {[exercise |-> None, weight |-> Some(100), reps |-> Some(5)],
   [exercise |-> Some("Squat"), weight |-> None, reps |-> Some(5)],
   [exercise |-> Some("Squat"), weight |-> Some(100), reps |-> None]}

\* an entry whose weight and reps are negative integers
NegativeEntry == [exercise |-> Some("Squat"), weight |-> Some(0 - 5), reps |-> Some(0 - 1)]

\* entries lists: the complete entries in any order, and one deficient entry
\* alone or after a complete one
EntryLists ==
  SeqUpTo(EntryInputs, MaxEntries)
  \cup {<<e>> : e \in DeficientEntries}
  \cup {<<g, e>> : g \in EntryInputs, e \in {x \in DeficientEntries : x.reps = None}}

PostBodies ==
  {[type |-> "null"],
   [type |-> "object", workout |-> None],
   [type |-> "object", workout |-> Some([entries |-> [type |-> "undefined"]])],
   [type |-> "object", workout |-> Some([entries |-> [type |-> "string"]])]}
  \cup {[type |-> "object",
         workout |-> Some([entries |-> [type |-> "array", items |-> es]])]
          : es \in EntryLists}

\* the decimal numerals of the ids the store can hand out
NumeralSegments == {<<Digits[n + 1]>> : n \in 1..MaxWorkouts}

\* path segments: the numerals, zero, and malformed ones
IdSegments ==
  NumeralSegments
  \cup {<<"0">>, <<"-", "1">>, <<"1", "a">>, <<"1", ".", "5">>, <<"a", "b", "c">>}

OptionalIds(n) == {None} \cup {Some(k) : k \in 1..n}

\* the sets of a PUT body: any id or none, one new reps and weight
PutSetInputs == {[id |-> i, reps |-> 10, weight |-> 80] : i \in OptionalIds(MaxSets)}

\* the exercises of a PUT body with at most n sets: any id or none, a new name
PutExerciseInputs(n) ==
  {[id |-> i, name |-> "Deadlift", sets |-> ss]
     : i \in OptionalIds(MaxExercises), ss \in SeqUpTo(PutSetInputs, n)}

\* exercise lists: one exercise with up to MaxPutSets sets, or up to
\* MaxPutExercises exercises without sets
PutExerciseLists ==
  SeqUpTo(PutExerciseInputs(MaxPutSets), 1)
  \cup SeqUpTo(PutExerciseInputs(0), MaxPutExercises)

PutDates == {Some(toISOString(t)) : t \in 1..MaxTime}

\* bodies of a PUT: nothing, a date, an exercise list, or a date and one
\* exercise without sets
PutBodies ==
  {[date |-> None, exercises |-> None]}
  \cup {[date |-> dt, exercises |-> None] : dt \in PutDates}
  \cup {[date |-> None, exercises |-> Some(es)] : es \in PutExerciseLists}
  \cup {[date |-> dt, exercises |-> Some(es)]
          : dt \in PutDates, es \in SeqUpTo(PutExerciseInputs(0), 1)}

\* the bodies sent with a segment that is no plain numeral
BasicPutBodies ==
  {[date |-> None, exercises |-> None],
   [date |-> None,
    exercises |-> Some(<<[id |-> Some(1), name |-> "Deadlift", sets |-> <<>>]>>)]}

PutBodiesFor(seg) == IF seg \in NumeralSegments THEN PutBodies ELSE BasicPutBodies

Ids(rows) == {r.id : r \in rows}

\* the autoincrement counters are within the model's bounds
WithinBounds(d) ==
  /\ d.nextWorkoutId <= MaxWorkouts + 1
  /\ d.nextExerciseId <= MaxExercises + 1
  /\ d.nextSetId <= MaxSets + 1

\* the clients that have a request handled while another's is in progress
Clients == {"a", "b"}

\* a client whose request has not arrived yet
Idle ==
  [pc |-> "idle", op |-> "none", seg |-> <<>>, workoutId |-> NaN, req |-> None,
   found |-> None, status |-> 0, body |-> None]

\* the create page as it is mounted: nothing selected, no set, no exercise
FormStart ==
  [path |-> "/workout", selectedExercise |-> None, sets |-> <<>>, workout |-> <<>>,
   currentSet |-> [weight |-> 0, reps |-> 0]]

\* the edit page before its workout has been fetched
EditStart == [id |-> <<>>, workout |-> None, error |-> FALSE, submitted |-> FALSE]

\* the route modules that import lib/prisma
Routes == {"save-workout", "get-workouts", "get-workout", "update-workout", "delete-workout"}

\* a server process that has not been launched: NODE_ENV is not set yet,
\* global.prisma is undefined, no PrismaClient has been constructed, no route
\* module holds an imported prisma and no handler has used one
NodeStart ==
  [env |-> None, global |-> None, constructed |-> 0, evaluations |-> 0,
   imported |-> [r \in Routes |-> None], used |-> {}]

(***************************************************************************)
(* Actions: one request handled from start to end.                         *)
(***************************************************************************)
Init ==
  /\ db = EmptyDb
  /\ clock = 1
  /\ last = [op |-> "none", seg |-> <<>>, workoutId |-> NaN, req |-> None,
             status |-> 0, body |-> None, thrown |-> None]
  /\ deleted = {}
  /\ created = {}
  /\ inflight = [c \in Clients |-> Idle]
  /\ form = FormStart
  /\ edit = EditStart
  /\ node = NodeStart

\* the request ends with response r; thrown is the exception a failing store
\* raised while it was handled, if one did
Answer(op, seg, req, r, thrown) ==
  /\ db' = r.db
  /\ last' = [op |-> op, seg |-> seg, workoutId |-> parseInt(seg), req |-> req,
              status |-> r.status, body |-> r.body, thrown |-> thrown]

\* a request sent by a client other than the pages
RespondAfter(op, seg, req, r, thrown) ==
  /\ WithinBounds(r.db)
  /\ Answer(op, seg, req, r, thrown)
  /\ UNCHANGED <<inflight, form, edit, node>>

Respond(op, seg, req, r) == RespondAfter(op, seg, req, r, None)

\* new Date() reads a clock that has not gone back since it was last read
SaveWorkout ==
  \E body \in PostBodies, now \in clock..MaxTime :
    /\ Respond("POST", <<>>, Some(body), POST(db, body, now))
    /\ clock' = now
    /\ UNCHANGED <<deleted, created>>

GetWorkout ==
  \E seg \in IdSegments :
    /\ Respond("GET", seg, None, GET(db, seg))
    /\ UNCHANGED <<clock, deleted, created>>

GetWorkouts ==
  \E ws \in FindManyByDateDesc(db) :
    /\ Respond("LIST", <<>>, None, GETWorkouts(db, ws))
    /\ UNCHANGED <<clock, deleted, created>>

DeleteWorkout ==
  \E seg \in IdSegments :
    LET r == DELETE(db, seg)
    IN /\ Respond("DELETE", seg, None, r)
       /\ deleted' = IF r.status = 200 THEN deleted \cup {parseInt(seg)[1]} ELSE deleted
       /\ UNCHANGED <<clock, created>>

UpdateWorkoutRequest ==
  \E seg \in IdSegments :
    LET workoutId == parseInt(seg)
    IN /\ IF isNaN(workoutId)
          THEN Respond("PUT", seg, None, ErrorResponse(400, "Invalid workout ID", db))
          ELSE \E body \in PutBodiesFor(seg) :
                 Respond("PUT", seg, Some(body), PUT(db, workoutId[1], body))
       /\ UNCHANGED <<clock, deleted, created>>

Next ==
  \/ SaveWorkout
  \/ GetWorkout
  \/ GetWorkouts
  \/ DeleteWorkout
  \/ UpdateWorkoutRequest

Spec == Init /\ [][Next]_vars

(***************************************************************************)
(* SpecHistory: requests of few shapes, with signed numbers and dates of   *)
(* any offset, over a store whose calls may raise an exception; the clock  *)
(* reading at which each stored workout was created is recorded.           *)
(***************************************************************************)
\* the exceptions a call to the store may raise
StorageErrors ==
  {[name |-> "PrismaClientInitializationError",
    message |-> "Can't reach database server"]}

\* no exception, or one of StorageErrors
Throws == {None} \cup {Some(e) : e \in StorageErrors}

\* the fixed message of each handler's catch block
GenericMessage(op) ==
  CASE op = "LIST" -> "Error fetching workouts"
    [] op = "GET" -> "Error fetching workout"
    [] op = "POST" -> "Error saving workout"
    [] op = "PUT" -> "Error updating workout"
    [] op = "DELETE" -> "Error deleting workout"

\* Catch with the exception's message passed on to the client
CatchExposing(op, error, d) ==
  [status |-> 500,
   body |-> [error |-> GenericMessage(op), details |-> error.message],
   db |-> d]

\* the catch block of handler op: the exception goes to the server log, the
\* response carries the fixed message; the transaction has been rolled back
Catch(op, error, d) == ErrorResponse(500, GenericMessage(op), d)

\* the exception raised while a request is handled whose response from a
\* reliable store is ok: a handler that answers 400 returns before its first
\* call to the store
Raised(ok, thrown) == IF ok.status = 400 THEN None ELSE thrown

\* the response of handler op when its calls to the store raise thrown
Outcome(op, ok, thrown, d) ==
  IF Raised(ok, thrown) = None THEN ok ELSE Catch(op, Raised(ok, thrown)[1], d)

HistoryPostBodies ==
  {[type |-> "object", workout |-> None]}
  \cup {[type |-> "object",
         workout |-> Some([entries |-> [type |-> "array", items |-> <<e>>]])]
          : e \in {CHOOSE g \in EntryInputs : g.exercise = Some("Squat"), NegativeEntry}}

HistorySegments == NumeralSegments \cup {<<"a", "b", "c">>}

\* ISO strings of the instants 1..MaxTime, written at offsets -1, 0 and +1
HistoryPutDates ==
  {Some([local |-> t + k, offset |-> k]) : t \in 1..MaxTime, k \in {0 - 1, 0, 1}}

\* bodies of a PUT: nothing, a date, or exercise 1 renamed, without sets or
\* with set 1 given negative reps and weight
HistoryPutBodies ==
  {[date |-> None, exercises |-> None]}
  \cup {[date |-> dt, exercises |-> None] : dt \in HistoryPutDates}
  \cup {[date |-> None,
         exercises |-> Some(<<[id |-> Some(1), name |-> "Deadlift", sets |-> ss]>>)]
          : ss \in {<<>>, <<[id |-> Some(1), reps |-> 0 - 1, weight |-> 0 - 5]>>}}

HistorySave ==
  \E body \in HistoryPostBodies, now \in clock..MaxTime, thrown \in Throws :
    LET ok == POST(db, body, now)
        r == Outcome("POST", ok, thrown, db)
    IN /\ RespondAfter("POST", <<>>, Some(body), r, Raised(ok, thrown))
       /\ clock' = now
       /\ created' = IF r.status = 200
                     THEN created \cup {[id |-> r.body.id, at |-> now]}
                     ELSE created
       /\ UNCHANGED deleted

HistoryGet ==
  \E seg \in HistorySegments, thrown \in Throws :
    LET ok == GET(db, seg)
    IN /\ RespondAfter("GET", seg, None, Outcome("GET", ok, thrown, db),
                       Raised(ok, thrown))
       /\ UNCHANGED <<clock, deleted, created>>

HistoryList ==
  \E ws \in FindManyByDateDesc(db), thrown \in Throws :
    LET ok == GETWorkouts(db, ws)
    IN /\ RespondAfter("LIST", <<>>, None, Outcome("LIST", ok, thrown, db),
                       Raised(ok, thrown))
       /\ UNCHANGED <<clock, deleted, created>>

HistoryDelete ==
  \E seg \in HistorySegments, thrown \in Throws :
    LET ok == DELETE(db, seg)
        r == Outcome("DELETE", ok, thrown, db)
    IN /\ RespondAfter("DELETE", seg, None, r, Raised(ok, thrown))
       /\ deleted' = IF r.status = 200 THEN deleted \cup {parseInt(seg)[1]} ELSE deleted
       /\ created' = {c \in created : c.id \in Ids(r.db.workouts)}
       /\ UNCHANGED clock

HistoryUpdate ==
  \E seg \in HistorySegments :
    LET workoutId == parseInt(seg)
    IN /\ IF isNaN(workoutId)
          THEN Respond("PUT", seg, None, ErrorResponse(400, "Invalid workout ID", db))
          ELSE \E body \in HistoryPutBodies, thrown \in Throws :
                 LET ok == PUT(db, workoutId[1], body)
                 IN RespondAfter("PUT", seg, Some(body),
                                 Outcome("PUT", ok, thrown, db), Raised(ok, thrown))
       /\ UNCHANGED <<clock, deleted, created>>

NextHistory ==
  \/ HistorySave
  \/ HistoryGet
  \/ HistoryList
  \/ HistoryDelete
  \/ HistoryUpdate

SpecHistory == Init /\ [][NextHistory]_vars

(***************************************************************************)
(* SpecConcurrent: two clients' DELETE and PUT requests handled one await  *)
(* at a time, so that the calls of one fall between the calls of the       *)
(* other, while workouts are saved.                                        *)
(***************************************************************************)
\* entries lists of a POST: a Squat entry, or a Squat and a Bench Press entry
ConcurrentEntryLists ==
  LET squat == CHOOSE g \in EntryInputs : g.exercise = Some("Squat")
      bench == CHOOSE g \in EntryInputs : g.exercise = Some("Bench Press")
  IN {<<squat>>, <<squat, bench>>}

\* bodies of a PUT: one exercise named by id gets a new name
ConcurrentPutBodies ==
  {[date |-> None,
    exercises |-> Some(<<[id |-> Some(k), name |-> "Deadlift", sets |-> <<>>]>>)]
     : k \in 1..MaxExercises}

\* a POST handled in one step: it makes a single call
ConcurrentSave ==
  \E es \in ConcurrentEntryLists, now \in clock..MaxTime :
    LET body == [type |-> "object",
                 workout |-> Some([entries |-> [type |-> "array", items |-> es]])]
    IN /\ Respond("POST", <<>>, Some(body), POST(db, body, now))
       /\ clock' = now
       /\ UNCHANGED <<deleted, created>>

\* client c's request of method op has run up to the end of its await of
\* findUnique with result f
Checked(c, op, seg, req, f, existing) ==
  inflight' = [inflight EXCEPT ![c] =
    [pc |-> IF f.status = 0 THEN "found" ELSE "done",
     op |-> op,
     seg |-> seg,
     workoutId |-> parseInt(seg),
     req |-> req,
     found |-> existing,
     status |-> f.status,
     body |-> IF f.status = 0 THEN None ELSE Some(f.body)]]

\* client c's DELETE arrives and runs up to the end of its await of findUnique
DeleteCheck(c) ==
  /\ inflight[c].pc = "idle"
  /\ \E seg \in NumeralSegments :
       Checked(c, "DELETE", seg, None, DeleteFind(db, seg), None)
  /\ UNCHANGED <<db, clock, last, deleted, created, form, edit, node>>

\* client c's DELETE goes on from findUnique: prisma.workout.delete and the
\* response
DeleteRemove(c) ==
  /\ inflight[c].pc = "found"
  /\ inflight[c].op = "DELETE"
  /\ LET r == DeleteWrite(db, inflight[c].workoutId[1])
     IN /\ db' = r.db
        /\ inflight' = [inflight EXCEPT ![c] =
             [@ EXCEPT !.pc = "done", !.status = r.status, !.body = Some(r.body)]]
        /\ deleted' = IF r.status = 200
                      THEN deleted \cup {inflight[c].workoutId[1]}
                      ELSE deleted
  /\ UNCHANGED <<clock, last, created, form, edit, node>>

\* PutUpdateFrom writing the workout back as findUnique returned it, with the
\* body's changes made to that copy
PutUpdateFromCopy(d, existingWorkout, wid, body) ==
  LET copy(e) == CHOOSE i \in DOMAIN existingWorkout.exercises :
                   existingWorkout.exercises[i].id = e.id
      d1 == [d EXCEPT !.exercises =
               {IF e.workoutId = wid
                   /\ \E i \in DOMAIN existingWorkout.exercises :
                        existingWorkout.exercises[i].id = e.id
                THEN [e EXCEPT !.name = existingWorkout.exercises[copy(e)].name]
                ELSE e : e \in @}]
      r == PutWrite(d1, wid, body)
  IN IF r.status = 200 THEN r ELSE [r EXCEPT !.db = d]

\* the handler from findUnique on, existingWorkout in hand: updateData is
\* built from the body alone and prisma.workout.update applies it to the store
\* as it is at that moment
PutUpdateFrom(d, existingWorkout, wid, body) == PutWrite(d, wid, body)

\* client c's PUT arrives and runs up to the end of its await of findUnique
PutCheck(c) ==
  /\ inflight[c].pc = "idle"
  /\ \E seg \in NumeralSegments, body \in ConcurrentPutBodies :
       LET f == PutFind(db, parseInt(seg)[1])
       IN Checked(c, "PUT", seg, Some(body), f,
                  IF f.status = 0
                  THEN Some(WorkoutResponse(db, CHOOSE w \in db.workouts :
                                                   w.id = parseInt(seg)[1]))
                  ELSE None)
  /\ UNCHANGED <<db, clock, last, deleted, created, form, edit, node>>

\* client c's PUT goes on from findUnique: prisma.workout.update and the
\* response
PutUpdate(c) ==
  /\ inflight[c].pc = "found"
  /\ inflight[c].op = "PUT"
  /\ LET r == PutUpdateFrom(db, inflight[c].found[1], inflight[c].workoutId[1],
                            inflight[c].req[1])
     IN /\ WithinBounds(r.db)
        /\ db' = r.db
        /\ inflight' = [inflight EXCEPT ![c] =
             [@ EXCEPT !.pc = "done", !.status = r.status, !.body = Some(r.body)]]
  /\ UNCHANGED <<clock, last, deleted, created, form, edit, node>>

NextConcurrent ==
  \/ ConcurrentSave
  \/ \E c \in Clients : DeleteCheck(c)
  \/ \E c \in Clients : DeleteRemove(c)
  \/ \E c \in Clients : PutCheck(c)
  \/ \E c \in Clients : PutUpdate(c)

SpecConcurrent == Init /\ [][NextConcurrent]_vars

(***************************************************************************)
(* SpecOwnership: two workouts and PUT bodies that name rows by any id,    *)
(* with room for the rows a PUT creates when an id is not found under its  *)
(* parent.                                                                 *)
(***************************************************************************)
MaxRows == 3

\* the autoincrement counters leave room for MaxRows exercises and sets
WithinRows(d) ==
  /\ d.nextWorkoutId <= MaxWorkouts + 1
  /\ d.nextExerciseId <= MaxRows + 1
  /\ d.nextSetId <= MaxRows + 1

\* a request answered, in a store of up to MaxRows exercises and sets
RespondOwned(op, seg, req, r) ==
  /\ WithinRows(r.db)
  /\ Answer(op, seg, req, r, None)
  /\ UNCHANGED <<clock, deleted, created, inflight, form, edit, node>>

OwnershipEntryLists == SeqUpTo(EntryInputs, MaxEntries) \ {<<>>}

OwnershipSave ==
  \E es \in OwnershipEntryLists :
    LET body == [type |-> "object",
                 workout |-> Some([entries |-> [type |-> "array", items |-> es]])]
    IN RespondOwned("POST", <<>>, Some(body), POST(db, body, clock))

\* PUT bodies of one exercise with at most one set, each naming a row by id
OwnershipPutBodies ==
  {[date |-> None, exercises |-> Some(<<[id |-> Some(k), name |-> "Deadlift", sets |-> ss]>>)]
     : k \in 1..MaxRows,
       ss \in SeqUpTo({[id |-> Some(j), reps |-> 10, weight |-> 80] : j \in 1..MaxRows}, 1)}

OwnershipUpdate ==
  \E seg \in NumeralSegments, body \in OwnershipPutBodies :
    RespondOwned("PUT", seg, Some(body), PUT(db, parseInt(seg)[1], body))

NextOwnership == OwnershipSave \/ OwnershipUpdate

SpecOwnership == Init /\ [][NextOwnership]_vars

(***************************************************************************)
(* SpecModule: lib/prisma evaluated for the route modules of one server    *)
(* process, and the handlers using the prisma they imported.               *)
(***************************************************************************)
MaxEvaluations == 4

Envs == {"production", "development"}

\* the server process is launched with NODE_ENV set
Launch ==
  /\ node.env = None
  /\ \E env \in Envs : node' = [node EXCEPT !.env = Some(env)]
  /\ UNCHANGED <<db, clock, last, deleted, created, inflight, form, edit>>

\* one evaluation of lib/prisma in process n: the exported prisma and the
\* process afterwards; the k-th PrismaClient constructed is Some(k)
Evaluated(n) ==
  LET fresh == n.global = None
      prisma == IF fresh THEN Some(n.constructed + 1) ELSE n.global
  IN [prisma |-> prisma,
      node |-> [n EXCEPT !.constructed = IF fresh THEN @ + 1 ELSE @,
                         !.evaluations = @ + 1,
                         !.global = IF n.env # Some("production") THEN prisma ELSE @]]

\* the module of route r is loaded (or loaded again) and its import evaluates
\* lib/prisma
Evaluate(r) ==
  /\ node.env # None
  /\ node.evaluations < MaxEvaluations
  /\ LET m == Evaluated(node)
     IN node' = [m.node EXCEPT !.imported[r] = m.prisma]
  /\ UNCHANGED <<db, clock, last, deleted, created, inflight, form, edit>>

\* a request to route r is handled with the prisma its module imported
Handle(r) ==
  /\ node.imported[r] # None
  /\ node' = [node EXCEPT !.used = @ \cup {node.imported[r][1]}]
  /\ UNCHANGED <<db, clock, last, deleted, created, inflight, form, edit>>

NextModule ==
  \/ Launch
  \/ \E r \in Routes : Evaluate(r)
  \/ \E r \in Routes : Handle(r)

SpecModule == Init /\ [][NextModule]_vars

(***************************************************************************)
(* SpecCreate: the create page's handlers, and the POST it sends.          *)
(***************************************************************************)
MaxFormSets == 2
MaxFormExercises == 2
MaxFormWorkouts == 1

\* the predefined list of exercises
exercises == {"Squat", "Bench Press", "Deadlift", "Overhead Press", "Barbell Row"}

\* the options picked from the dropdown
FormChoices == {"Squat", "Bench Press"}

\* what is typed into the number inputs: nothing, a negative number, a
\* positive number
FormValues ==
  [weight |-> {<<>>, <<"1", "0", "0">>}, reps |-> {<<>>, <<"-", "1">>, <<"5">>}]

\* Number(value) of the value of a number input
Number(value) ==
  IF value = <<>> THEN 0
  ELSE IF Head(value) = "-" THEN 0 - DecimalValue(Tail(value), 0)
  ELSE DecimalValue(value, 0)

handleSelectExercise(f, value) ==
  [f EXCEPT !.selectedExercise = Some(value), !.sets = <<>>]

handleSetChange(f, name, value) ==
  [f EXCEPT !.currentSet[name] = Number(value)]

\* handleAddSet without the check of the inputs
handleAddSetUnchecked(f) ==
  [f EXCEPT !.sets = Append(@, f.currentSet),
            !.currentSet = [weight |-> 0, reps |-> 0]]

\* the else branch alerts and changes nothing
handleAddSet(f) ==
  IF f.currentSet.weight > 0 /\ f.currentSet.reps > 0
  THEN [f EXCEPT !.sets = Append(@, f.currentSet),
                 !.currentSet = [weight |-> 0, reps |-> 0]]
  ELSE f

handleAddExercise(f) ==
  IF f.selectedExercise # None /\ Len(f.sets) > 0
  THEN [f EXCEPT !.workout = Append(@, [exercise |-> f.selectedExercise[1],
                                         sets |-> f.sets]),
                 !.selectedExercise = None,
                 !.sets = <<>>]
  ELSE f

\* exercise.sets.map(set => ({exercise, weight, reps}))
EntriesOf(exercise) ==
  [j \in 1..Len(exercise.sets) |->
     [exercise |-> Some(exercise.exercise),
      weight |-> Some(exercise.sets[j].weight),
      reps |-> Some(exercise.sets[j].reps)]]

RECURSIVE flatMap(_)
\* workout.flatMap(exercise => exercise.sets.map(...))
flatMap(workout) ==
  IF workout = <<>> THEN <<>>
  ELSE EntriesOf(Head(workout)) \o flatMap(Tail(workout))

formattedWorkout(f) ==
  [type |-> "object",
   workout |-> Some([entries |-> [type |-> "array", items |-> flatMap(f.workout)]])]

\* the dropdown is rendered while no exercise is selected
SelectExercise ==
  /\ form.path = "/workout"
  /\ form.selectedExercise = None
  /\ \E value \in FormChoices : form' = handleSelectExercise(form, value)
  /\ UNCHANGED <<db, clock, last, deleted, created, inflight, edit, node>>

\* the inputs and the two buttons are rendered while an exercise is selected
SetChange ==
  /\ form.path = "/workout"
  /\ form.selectedExercise # None
  /\ \E name \in {"weight", "reps"} :
       \E value \in FormValues[name] : form' = handleSetChange(form, name, value)
  /\ UNCHANGED <<db, clock, last, deleted, created, inflight, edit, node>>

AddSet ==
  /\ form.path = "/workout"
  /\ form.selectedExercise # None
  /\ Len(form.sets) < MaxFormSets
  /\ form' = handleAddSet(form)
  /\ UNCHANGED <<db, clock, last, deleted, created, inflight, edit, node>>

AddExercise ==
  /\ form.path = "/workout"
  /\ form.selectedExercise # None
  /\ Len(form.workout) < MaxFormExercises
  /\ form' = handleAddExercise(form)
  /\ UNCHANGED <<db, clock, last, deleted, created, inflight, edit, node>>

\* handleFinishWorkout: nothing is sent for an empty workout; a response that
\* is ok leads to the home page
FinishWorkout ==
  /\ form.path = "/workout"
  /\ form.workout # <<>>
  /\ LET body == formattedWorkout(form)
         r == POST(db, body, clock)
     IN /\ r.db.nextWorkoutId <= MaxFormWorkouts + 1
        /\ Answer("POST", <<>>, Some(body), r, None)
        /\ form' = IF r.status = 200 THEN [form EXCEPT !.path = "/"] ELSE form
  /\ UNCHANGED <<clock, deleted, created, inflight, edit, node>>

\* the create page is opened again from the home page and mounted anew
Visit ==
  /\ form.path = "/"
  /\ form' = FormStart
  /\ UNCHANGED <<db, clock, last, deleted, created, inflight, edit, node>>

NextCreate ==
  \/ SelectExercise
  \/ SetChange
  \/ AddSet
  \/ AddExercise
  \/ FinishWorkout
  \/ Visit

SpecCreate == Init /\ [][NextCreate]_vars

(***************************************************************************)
(* SpecEdit: the edit page's handlers on the workout it fetched, and the   *)
(* PUT it sends.                                                           *)
(***************************************************************************)
\* the workout state set from the GET response: ids are optional in the form
FetchedWorkout(data) ==
  [date |-> data.date,
   exercises |->
     [i \in 1..Len(data.exercises) |->
        [id |-> Some(data.exercises[i].id),
         name |-> data.exercises[i].name,
         sets |-> [j \in 1..Len(data.exercises[i].sets) |->
                     [id |-> Some(data.exercises[i].sets[j].id),
                      reps |-> data.exercises[i].sets[j].reps,
                      weight |-> data.exercises[i].sets[j].weight]]]]]

\* s without its element at index i
Splice(s, i) == SubSeq(s, 1, i - 1) \o SubSeq(s, i + 1, Len(s))

handleExerciseChange(w, index, newName) ==
  [w EXCEPT !.exercises[index].name = newName]

handleEditSetChange(w, exerciseIndex, setIndex, field, value) ==
  [w EXCEPT !.exercises[exerciseIndex].sets[setIndex][field] = value]

handleEditAddExercise(w) ==
  [w EXCEPT !.exercises = Append(@, [id |-> None, name |-> "", sets |-> <<>>])]

handleRemoveExercise(w, index) ==
  [w EXCEPT !.exercises = Splice(@, index)]

handleEditAddSet(w, exerciseIndex) ==
  [w EXCEPT !.exercises[exerciseIndex].sets =
              Append(@, [id |-> None, reps |-> 0, weight |-> 0])]

handleRemoveSet(w, exerciseIndex, setIndex) ==
  [w EXCEPT !.exercises[exerciseIndex].sets = Splice(@, setIndex)]

\* the body handleSubmit sends
editedWorkout(w) == [date |-> Some(w.date), exercises |-> Some(w.exercises)]

\* a workout saved before the page is opened
EditSave ==
  \E es \in ConcurrentEntryLists :
    LET body == [type |-> "object",
                 workout |-> Some([entries |-> [type |-> "array", items |-> es]])]
    IN /\ edit.workout = None
       /\ Respond("POST", <<>>, Some(body), POST(db, body, clock))
       /\ UNCHANGED <<clock, deleted, created>>

\* the page is mounted for workout id and fetchWorkout has run
EditOpen ==
  \E id \in NumeralSegments :
    LET r == GET(db, id)
    IN /\ edit.workout = None \/ edit.submitted \/ edit.error
       /\ Answer("GET", id, None, r, None)
       /\ edit' = [id |-> id,
                   workout |-> IF r.status = 200
                               THEN Some(FetchedWorkout(r.body)) ELSE None,
                   error |-> r.status # 200,
                   submitted |-> FALSE]
       /\ UNCHANGED <<clock, deleted, created, inflight, form, node>>

\* the form is rendered: a workout has been fetched, no error is set and the
\* page has not been left
Rendered == edit.workout # None /\ ~edit.error /\ ~edit.submitted

\* a handler's setWorkout(w) while the form is rendered
Edited(w) ==
  /\ Rendered
  /\ edit' = [edit EXCEPT !.workout = Some(w)]
  /\ UNCHANGED <<db, clock, last, deleted, created, inflight, form, node>>

EditExerciseChange ==
  /\ edit.workout # None
  /\ \E index \in 1..Len(edit.workout[1].exercises) :
       Edited(handleExerciseChange(edit.workout[1], index, "Deadlift"))

EditSetChange ==
  /\ edit.workout # None
  /\ \E exerciseIndex \in 1..Len(edit.workout[1].exercises) :
       \E setIndex \in 1..Len(edit.workout[1].exercises[exerciseIndex].sets) :
         Edited(handleEditSetChange(edit.workout[1], exerciseIndex, setIndex, "reps", 10))

EditAddExercise ==
  /\ edit.workout # None
  /\ Len(edit.workout[1].exercises) < MaxExercises
  /\ Edited(handleEditAddExercise(edit.workout[1]))

EditRemoveExercise ==
  /\ edit.workout # None
  /\ \E index \in 1..Len(edit.workout[1].exercises) :
       Edited(handleRemoveExercise(edit.workout[1], index))

EditAddSet ==
  /\ edit.workout # None
  /\ \E exerciseIndex \in 1..Len(edit.workout[1].exercises) :
       /\ Len(edit.workout[1].exercises[exerciseIndex].sets) < MaxSets
       /\ Edited(handleEditAddSet(edit.workout[1], exerciseIndex))

EditRemoveSet ==
  /\ edit.workout # None
  /\ \E exerciseIndex \in 1..Len(edit.workout[1].exercises) :
       \E setIndex \in 1..Len(edit.workout[1].exercises[exerciseIndex].sets) :
         Edited(handleRemoveSet(edit.workout[1], exerciseIndex, setIndex))

\* handleSubmit: a response that is ok leads to the detail page, any other
\* sets error
EditSubmit ==
  /\ Rendered
  /\ LET body == editedWorkout(edit.workout[1])
         workoutId == parseInt(edit.id)
         r == IF isNaN(workoutId)
              THEN ErrorResponse(400, "Invalid workout ID", db)
              ELSE PUT(db, workoutId[1], body)
     IN /\ Answer("PUT", edit.id, Some(body), r, None)
        /\ edit' = [edit EXCEPT !.submitted = r.status = 200,
                                !.error = r.status # 200]
  /\ UNCHANGED <<clock, deleted, created, inflight, form, node>>

NextEdit ==
  \/ EditSave
  \/ EditOpen
  \/ EditExerciseChange
  \/ EditSetChange
  \/ EditAddExercise
  \/ EditRemoveExercise
  \/ EditAddSet
  \/ EditRemoveSet
  \/ EditSubmit

SpecEdit == Init /\ [][NextEdit]_vars

(***************************************************************************)
(* Reading the last request and its response.                              *)
(***************************************************************************)
\* the body of the last request
LastBody == last.req[1]

\* the workout id the last request's path segment parsed to
LastId == last.workoutId[1]

\* the entries of the last POST body
LastEntries == LastBody.workout[1].entries.items

\* the exercise list the last PUT body supplied (empty when it supplied none)
LastExercises ==
  IF last.req = None \/ LastBody.exercises = None THEN <<>> ELSE LastBody.exercises[1]

\* the step handles a request of method op: every action handles one request
\* and records it in last
Handles(op) == last'.op = op

(***************************************************************************)
(* C1: a POST answered 200 for an entries list of length N created a       *)
(* workout with exactly N exercises, the i-th named after the i-th entry   *)
(* and holding exactly one set with that entry's reps and weight, in the   *)
(* response and in the store; entries of the same name are not merged.     *)
(***************************************************************************)
C1_OneExercisePerEntry ==
  (last.op = "POST" /\ last.status = 200) =>
    LET es == SortById(ExercisesOf(db, last.body.id))
    IN /\ Len(last.body.exercises) = Len(LastEntries)
       /\ Len(es) = Len(LastEntries)
       /\ \A i \in 1..Len(LastEntries) :
            /\ last.body.exercises[i].name = LastEntries[i].exercise[1]
            /\ Len(last.body.exercises[i].sets) = 1
            /\ last.body.exercises[i].sets[1].reps = LastEntries[i].reps[1]
            /\ last.body.exercises[i].sets[1].weight = LastEntries[i].weight[1]
            /\ es[i].name = LastEntries[i].exercise[1]
            /\ \E s \in db.sets :
                 /\ SetsOf(db, es[i].id) = {s}
                 /\ s.reps = LastEntries[i].reps[1]
                 /\ s.weight = LastEntries[i].weight[1]

\* a POST of two entries of the same exercise name was answered 200
C1_Witness ==
  /\ last.op = "POST"
  /\ last.status = 200
  /\ Len(LastEntries) = 2
  /\ LastEntries[1].exercise = LastEntries[2].exercise

C3_DeleteCascades ==
  /\ [][(Handles("DELETE") /\ last'.status = 200) =>
          LET wid == LastId'
              gone == ExercisesOf(db, wid)
          IN /\ findUnique(db', wid) = {}
             /\ db'.workouts = db.workouts \ findUnique(db, wid)
             /\ db'.exercises = db.exercises \ gone
             /\ db'.sets = db.sets \ {s \in db.sets : s.exerciseId \in Ids(gone)}]_vars
  /\ [](\A wid \in deleted :
          /\ findUnique(db, wid) = {}
          /\ ExercisesOf(db, wid) = {}
          /\ (last.op = "GET" /\ last.workoutId = Some(wid)) => last.status = 404)

\* a GET of a deleted workout's id, while rows of another workout are stored
C3_Witness ==
  /\ last.op = "GET"
  /\ last.workoutId # NaN
  /\ LastId \in deleted
  /\ db.exercises # {}
  /\ db.sets # {}

\* the exercise entry e names an exercise of workout wid by id, and each of its
\* sets names a set of that exercise by id
Matched(d, wid, e) ==
  /\ e.id # None
  /\ \E row \in ExercisesOf(d, wid) : row.id = e.id[1]
  /\ \A j \in 1..Len(e.sets) :
       /\ e.sets[j].id # None
       /\ \E s \in SetsOf(d, e.id[1]) : s.id = e.sets[j].id[1]

\* the list es supplies exercise row e
SuppliesExercise(es, e) == \E i \in 1..Len(es) : es[i].id = Some(e.id)

\* the list es supplies set row s under s's exercise
SuppliesSet(es, s) ==
  \E i \in 1..Len(es) :
    /\ es[i].id = Some(s.exerciseId)
    /\ \E j \in 1..Len(es[i].sets) : es[i].sets[j].id = Some(s.id)

(***************************************************************************)
(* C4: a PUT removes no Exercise and no Set row, and leaves every exercise *)
(* and set that its exercise list does not supply exactly as stored; rows  *)
(* disappear only in a DELETE answered 200.                                *)
(***************************************************************************)
C4_UpdateNeverRemoves ==
  [][/\ Handles("PUT") =>
          /\ Ids(db.workouts) \subseteq Ids(db'.workouts)
          /\ Ids(db.exercises) \subseteq Ids(db'.exercises)
          /\ Ids(db.sets) \subseteq Ids(db'.sets)
          /\ \A e \in db.exercises :
               ~SuppliesExercise(LastExercises', e) => e \in db'.exercises
          /\ \A s \in db.sets :
               ~SuppliesSet(LastExercises', s) => s \in db'.sets
     /\ (\/ ~(Ids(db.workouts) \subseteq Ids(db'.workouts))
         \/ ~(Ids(db.exercises) \subseteq Ids(db'.exercises))
         \/ ~(Ids(db.sets) \subseteq Ids(db'.sets)))
          => (Handles("DELETE") /\ last'.status = 200)]_vars

\* a PUT answered 200 supplied exercises, and the workout holds an exercise
\* with a set that the list did not supply
C4_Witness ==
  /\ last.op = "PUT"
  /\ last.status = 200
  /\ LastExercises # <<>>
  /\ \E e \in ExercisesOf(db, LastId) :
       /\ ~SuppliesExercise(LastExercises, e)
       /\ SetsOf(db, e.id) # {}

(***************************************************************************)
(* C5: a PUT whose exercises all name exercises of the workout by id, with *)
(* sets that all name sets of their exercise by id, replaces the names and *)
(* the sets' reps and weight by the supplied values (the last supplied for *)
(* an id) and creates no row: the workout keeps its number of exercises    *)
(* and each exercise its number of sets.                                   *)
(***************************************************************************)
C5_UpdateInPlace ==
  [][(/\ Handles("PUT")
      /\ last'.req # None
      /\ LastExercises' # <<>>
      /\ \A i \in 1..Len(LastExercises') : Matched(db, LastId', LastExercises'[i]))
     =>
     LET es == LastExercises'
         wid == LastId'
     IN /\ Ids(db'.exercises) = Ids(db.exercises)
        /\ Ids(db'.sets) = Ids(db.sets)
        /\ Cardinality(ExercisesOf(db', wid)) = Cardinality(ExercisesOf(db, wid))
        /\ \A i \in 1..Len(es) :
             /\ Cardinality(SetsOf(db', es[i].id[1])) = Cardinality(SetsOf(db, es[i].id[1]))
             /\ (\A k \in (i + 1)..Len(es) : es[k].id # es[i].id) =>
                  \E row \in ExercisesOf(db', wid) :
                    row.id = es[i].id[1] /\ row.name = es[i].name
             /\ \A j \in 1..Len(es[i].sets) :
                  (/\ \A m \in (j + 1)..Len(es[i].sets) : es[i].sets[m].id # es[i].sets[j].id
                   /\ \A k \in (i + 1)..Len(es) :
                        es[k].id = es[i].id =>
                          \A m \in 1..Len(es[k].sets) : es[k].sets[m].id # es[i].sets[j].id)
                  => \E s \in SetsOf(db', es[i].id[1]) :
                       /\ s.id = es[i].sets[j].id[1]
                       /\ s.reps = es[i].sets[j].reps
                       /\ s.weight = es[i].sets[j].weight]_vars

\* a PUT answered 200 supplied the one exercise and the one set ever created,
\* both by id
C5_Witness ==
  /\ last.op = "PUT"
  /\ last.status = 200
  /\ db.nextExerciseId = 2
  /\ db.nextSetId = 2
  /\ \E i \in 1..Len(LastExercises) :
       /\ Matched(db, LastId, LastExercises[i])
       /\ Len(LastExercises[i].sets) > 0

\* the exercise entry e carries no id, or an id of no exercise of workout wid
UnmatchedExercise(d, wid, e) ==
  e.id = None \/ ~\E row \in ExercisesOf(d, wid) : row.id = e.id[1]

\* the set entry x carries no id, or an id of no set of exercise eid
UnmatchedSet(d, eid, x) ==
  x.id = None \/ ~\E s \in SetsOf(d, eid) : s.id = x.id[1]

\* the rows of d2 whose id d does not hold
NewExercises(d, d2) == {e \in d2.exercises : e.id \notin Ids(d.exercises)}

NewSets(d, d2) == {s \in d2.sets : s.id \notin Ids(d.sets)}

(***************************************************************************)
(* C6: a PUT for a stored workout that supplies an exercise without id, or *)
(* with an id of no exercise of that workout, is answered 200 and a new    *)
(* Exercise of the supplied name, with one new Set per supplied set, is    *)
(* stored under the workout.                                               *)
(***************************************************************************)
C6_UnmatchedExerciseCreated ==
  [][(/\ Handles("PUT")
      /\ last'.req # None
      /\ findUnique(db, LastId') # {})
     =>
     \A i \in 1..Len(LastExercises') :
       LET e == LastExercises'[i]
       IN UnmatchedExercise(db, LastId', e) =>
            /\ last'.status = 200
            /\ \E row \in NewExercises(db, db') :
                 /\ row.workoutId = LastId'
                 /\ row.name = e.name
                 /\ SetsOf(db', row.id) \subseteq NewSets(db, db')
                 /\ Cardinality(SetsOf(db', row.id)) = Len(e.sets)
                 /\ \A j \in 1..Len(e.sets) :
                      \E s \in SetsOf(db', row.id) :
                        s.reps = e.sets[j].reps /\ s.weight = e.sets[j].weight]_vars

(***************************************************************************)
(* C7: a PUT that supplies an exercise of the workout by id with a set     *)
(* without id, or with an id of no set of that exercise, is answered 200,  *)
(* a new Set of the supplied reps and weight is stored under the exercise, *)
(* and the sets the entry names by id hold the supplied reps and weight.   *)
(***************************************************************************)
C7_UnmatchedSetCreated ==
  [][(/\ Handles("PUT")
      /\ last'.req # None
      /\ findUnique(db, LastId') # {})
     =>
     \A i \in 1..Len(LastExercises') :
       LET e == LastExercises'[i]
       IN (/\ ~UnmatchedExercise(db, LastId', e)
           /\ \E j \in 1..Len(e.sets) : UnmatchedSet(db, e.id[1], e.sets[j]))
          =>
          /\ last'.status = 200
          /\ \A j \in 1..Len(e.sets) :
               IF UnmatchedSet(db, e.id[1], e.sets[j])
               THEN \E s \in NewSets(db, db') :
                      /\ s.exerciseId = e.id[1]
                      /\ s.reps = e.sets[j].reps
                      /\ s.weight = e.sets[j].weight
               ELSE \E s \in SetsOf(db', e.id[1]) :
                      /\ s.id = e.sets[j].id[1]
                      /\ s.reps = e.sets[j].reps
                      /\ s.weight = e.sets[j].weight]_vars

\* the segment is a decimal numeral of a positive integer
WellFormedId(seg) ==
  /\ seg # <<>>
  /\ \A i \in 1..Len(seg) : IsDigit(seg[i])
  /\ DecimalValue(seg, 0) > 0

(***************************************************************************)
(* C8: GET, PUT and DELETE answer a path segment that is no well-formed    *)
(* positive integer with 400 'Invalid workout ID' and leave the store as   *)
(* it was.                                                                 *)
(***************************************************************************)
C8_MalformedIdRejected ==
  [][((Handles("GET") \/ Handles("PUT") \/ Handles("DELETE")) /\ ~WellFormedId(last'.seg))
     => /\ last'.status = 400
        /\ last'.body = [error |-> "Invalid workout ID"]
        /\ db' = db]_vars

\* the segment is a decimal numeral of an integer
IntegerNumeral(seg) ==
  LET digits == IF seg # <<>> /\ Head(seg) = "-" THEN Tail(seg) ELSE seg
  IN /\ digits # <<>>
     /\ \A i \in 1..Len(digits) : IsDigit(digits[i])

(***************************************************************************)
(* C9: GET, PUT and DELETE answer the numeral of an integer id under which *)
(* no workout is stored with 404 'Workout not found' and leave the store   *)
(* as it was.                                                              *)
(***************************************************************************)
C9_UnknownIdNotFound ==
  [][(/\ Handles("GET") \/ Handles("PUT") \/ Handles("DELETE")
      /\ IntegerNumeral(last'.seg)
      /\ findUnique(db, LastId') = {})
     => /\ last'.status = 404
        /\ last'.body = [error |-> "Workout not found"]
        /\ db' = db]_vars

\* a PUT that supplied exercises under the id of a deleted workout was
\* answered 404 while another workout is stored
C9_Witness ==
  /\ last.op = "PUT"
  /\ last.status = 404
  /\ IntegerNumeral(last.seg)
  /\ LastId \in deleted
  /\ LastExercises # <<>>
  /\ db.workouts # {}

\* the body has no workout, no entries, entries that are no list, or no entry
InvalidWorkoutData(body) ==
  \/ body.type = "null"
  \/ body.workout = None
  \/ body.workout[1].entries.type \in {"undefined", "string"}
  \/ (body.workout[1].entries.type = "array" /\ Len(body.workout[1].entries.items) = 0)

(***************************************************************************)
(* C10: a POST whose body has no workout, no entries, entries that are no  *)
(* list, or an empty entries list is answered 400 'Invalid workout data'   *)
(* and stores no row.                                                      *)
(***************************************************************************)
C10_InvalidBodyRejected ==
  [][(Handles("POST") /\ InvalidWorkoutData(LastBody'))
     => /\ last'.status = 400
        /\ last'.body = [error |-> "Invalid workout data"]
        /\ db' = db]_vars

\* a POST with an empty entries list was answered 400 while a workout is stored
C10_Witness ==
  /\ last.op = "POST"
  /\ last.status = 400
  /\ LastBody.type = "object"
  /\ LastBody.workout # None
  /\ LastBody.workout[1].entries.type = "array"
  /\ LastBody.workout[1].entries.items = <<>>
  /\ db.workouts # {}

(***************************************************************************)
(* C11: a POST whose entries list is not empty and holds an entry that     *)
(* lacks exercise, weight or reps is answered 400 and stores no row.       *)
(***************************************************************************)
C11_DeficientEntryRejected ==
  [][(/\ Handles("POST")
      /\ ~InvalidWorkoutData(LastBody')
      /\ ~CreateArgsValid(LastEntries'))
     => /\ last'.status = 400
        /\ db' = db]_vars

\* the stored rows, without the autoincrement counters
Rows(d) == [workouts |-> d.workouts, exercises |-> d.exercises, sets |-> d.sets]

(***************************************************************************)
(* C12: a create, update or delete request that ends in an error response  *)
(* (400, 404 or 500) leaves the stored workouts, exercises and sets, with  *)
(* all their fields, exactly as they were before the request.              *)
(***************************************************************************)
C12_ErrorLeavesStore ==
  [][((Handles("POST") \/ Handles("PUT") \/ Handles("DELETE"))
      /\ last'.status \in {400, 404, 500})
     => Rows(db') = Rows(db)]_vars

\* a PUT for a stored workout that supplied another date than the stored one
\* and exercises was answered 500
C12_Witness ==
  /\ last.op = "PUT"
  /\ last.status = 500
  /\ LastExercises # <<>>
  /\ LastBody.date # None
  /\ \E w \in findUnique(db, LastId) : w.date # NewDate(LastBody.date[1])

\* the stored workout the i-th item of the last list response shows
Listed(i) == CHOOSE w \in db.workouts : w.id = last.body.items[i].id

(***************************************************************************)
(* C13: the 200 response of GET get-workouts lists the stored workouts in  *)
(* non-increasing order of their stored date: date(i) >= date(j) for any   *)
(* positions i < j.                                                        *)
(***************************************************************************)
C13_ListedByDateDescending ==
  (last.op = "LIST" /\ last.status = 200) =>
    /\ {last.body.items[i].id : i \in DOMAIN last.body.items} = Ids(db.workouts)
    /\ \A i, j \in DOMAIN last.body.items :
         i < j => Listed(i).date >= Listed(j).date

\* a list of two workouts whose first has the greater id and the later date
C13_Witness ==
  /\ last.op = "LIST"
  /\ last.status = 200
  /\ Len(last.body.items) = 2
  /\ last.body.items[1].id > last.body.items[2].id
  /\ Listed(1).date > Listed(2).date

\* the clock reading at which the stored workout of that id was created
CreatedAt(id) == (CHOOSE c \in created : c.id = id).at

(***************************************************************************)
(* C14, as stated: if workout A was created at T1 and workout B at a later *)
(* T2, GET get-workouts lists B before A whenever both are stored.         *)
(***************************************************************************)
C14_LaterCreatedFirst ==
  (last.op = "LIST" /\ last.status = 200) =>
    \A i, j \in DOMAIN last.body.items :
      CreatedAt(last.body.items[i].id) < CreatedAt(last.body.items[j].id) => j < i

(***************************************************************************)
(* C14, amended: if workout A was created at T1 and workout B at a later   *)
(* T2 and both still carry their creation time as date (no PUT has given   *)
(* either another date), GET get-workouts lists B before A.                *)
(***************************************************************************)
C14_LaterCreatedFirstUnlessRedated ==
  (last.op = "LIST" /\ last.status = 200) =>
    \A i, j \in DOMAIN last.body.items :
      (/\ CreatedAt(last.body.items[i].id) < CreatedAt(last.body.items[j].id)
       /\ Listed(i).date = CreatedAt(last.body.items[i].id)
       /\ Listed(j).date = CreatedAt(last.body.items[j].id))
      => j < i

\* a list of two workouts created at different times that carry their
\* creation times as dates
C14_Witness ==
  /\ last.op = "LIST"
  /\ last.status = 200
  /\ Len(last.body.items) = 2
  /\ CreatedAt(1) < CreatedAt(2)
  /\ \A w \in db.workouts : w.date = CreatedAt(w.id)

\* the path segment a client writes for id n
Numeral(n) == <<Digits[n + 1]>>

(***************************************************************************)
(* C15: a GET get-workout/{id} issued with the id a POST answered 200      *)
(* returned, before any other request, is answered 200 with the same id,   *)
(* date, exercises and sets as the POST response.                          *)
(***************************************************************************)
C15_GetAfterPost ==
  [][(/\ last.op = "POST"
      /\ last.status = 200
      /\ Handles("GET")
      /\ last'.seg = Numeral(last.body.id))
     => /\ last'.status = 200
        /\ last'.body = last.body]_vars

\* a GET answered 200 shows the workout created last with two exercises of
\* one set each, as posted and not updated since
C15_Witness ==
  /\ last.op = "GET"
  /\ last.status = 200
  /\ last.body.id = db.nextWorkoutId - 1
  /\ Len(last.body.exercises) = 2
  /\ \A i \in 1..2 :
       /\ last.body.exercises[i].name # "Deadlift"
       /\ Len(last.body.exercises[i].sets) = 1
       /\ last.body.exercises[i].sets[1].reps # 10

(***************************************************************************)
(* C16: ids are assigned by the store and never reused.  The rows a        *)
(* request creates take the ids the table's counter hands out, whatever    *)
(* ids the client supplied; the counters never go back, every id assigned  *)
(* so far lies below its counter, and the id of a deleted workout is held  *)
(* by no stored workout.                                                   *)
(***************************************************************************)
C16_IdsNeverReused ==
  /\ [][/\ db'.nextWorkoutId >= db.nextWorkoutId
        /\ db'.nextExerciseId >= db.nextExerciseId
        /\ db'.nextSetId >= db.nextSetId
        /\ Ids(db'.workouts) \ Ids(db.workouts) = db.nextWorkoutId..(db'.nextWorkoutId - 1)
        /\ Ids(db'.exercises) \ Ids(db.exercises)
             = db.nextExerciseId..(db'.nextExerciseId - 1)
        /\ Ids(db'.sets) \ Ids(db.sets) = db.nextSetId..(db'.nextSetId - 1)]_vars
  /\ [](/\ Ids(db.workouts) \subseteq 1..(db.nextWorkoutId - 1)
        /\ Ids(db.exercises) \subseteq 1..(db.nextExerciseId - 1)
        /\ Ids(db.sets) \subseteq 1..(db.nextSetId - 1)
        /\ deleted \cap Ids(db.workouts) = {})

\* a PUT answered 200 that supplied exercise id 2 with one set of id 1 left
\* set 1 under exercise 1 and exercise 2 with the one set 2: the set it created
\* was not given the supplied id
PutIgnoredSuppliedSetId ==
  /\ last.op = "PUT"
  /\ last.status = 200
  /\ Len(LastExercises) = 1
  /\ LastExercises[1].id = Some(2)
  /\ Len(LastExercises[1].sets) = 1
  /\ LastExercises[1].sets[1].id = Some(1)
  /\ {s.id : s \in SetsOf(db, 1)} = {1}
  /\ {s.id : s \in SetsOf(db, 2)} = {2}

\* a POST answered 200 after workout 1 was deleted with its exercise and set:
\* the new workout, exercise and set have the ids 2
C16_Witness ==
  /\ last.op = "POST"
  /\ last.status = 200
  /\ deleted = {1}
  /\ db.exercises # {}
  /\ Ids(db.workouts) = {2}
  /\ Ids(db.exercises) = {2}
  /\ Ids(db.sets) = {2}

(***************************************************************************)
(* C17: every stored Set has reps >= 0 and weight >= 0, whatever integers  *)
(* the bodies of POST save-workout and PUT update-workout carry.           *)
(***************************************************************************)
C17_SetsNonNegative ==
  \A s \in db.sets : s.reps >= 0 /\ s.weight >= 0

(***************************************************************************)
(* C18: whenever the store raises an exception while one of the five       *)
(* operations is handled, the request ends with status 500 and exactly the *)
(* fixed message of that operation, nothing of the exception, and without  *)
(* a second attempt: the store is left as it was.  Every 500 response      *)
(* carries exactly the fixed message of its operation.                     *)
(***************************************************************************)
C18_GenericFailure ==
  /\ [][last'.thrown # None =>
          /\ last'.status = 500
          /\ last'.body = [error |-> GenericMessage(last'.op)]
          /\ db' = db]_vars
  /\ [](last.status = 500 => last.body = [error |-> GenericMessage(last.op)])

\* the store raised an exception during a PUT of another date for a stored
\* workout, which the store would otherwise have written
C18_Witness ==
  /\ last.op = "PUT"
  /\ last.thrown # None
  /\ last.status = 500
  /\ LastBody.date # None
  /\ \E w \in findUnique(db, LastId) : w.date # NewDate(LastBody.date[1])

\* the instant an ISO-8601 string denotes: its local time less its offset
Denotes(iso) == iso.local - iso.offset

(***************************************************************************)
(* C19: a PUT answered 200 that supplies a date sets the stored date to    *)
(* the instant the ISO string denotes, and its response and any later GET  *)
(* answered 200 carry an ISO string of the stored instant; a PUT answered  *)
(* 200 without a date leaves the stored date as it was; a PUT for a stored *)
(* workout with neither date nor exercises is answered 200 (unless the     *)
(* store fails) and leaves the rows as they were.                          *)
(***************************************************************************)
C19_DateUpdate ==
  /\ [][(Handles("PUT") /\ last'.status = 200) =>
          LET before == CHOOSE w \in db.workouts : w.id = LastId'
              after == CHOOSE w \in db'.workouts : w.id = LastId'
          IN /\ LastBody'.date # None => after.date = Denotes(LastBody'.date[1])
             /\ LastBody'.date = None => after.date = before.date
             /\ Denotes(last'.body.date) = after.date]_vars
  /\ [][(/\ Handles("PUT")
         /\ last'.req # None
         /\ findUnique(db, LastId') # {}
         /\ last'.thrown = None
         /\ LastBody'.date = None
         /\ LastBody'.exercises = None)
        => /\ last'.status = 200
           /\ Rows(db') = Rows(db)]_vars
  /\ []((last.op = "GET" /\ last.status = 200) =>
          \E w \in db.workouts : w.id = last.body.id /\ Denotes(last.body.date) = w.date)

\* a PUT answered 200 supplied a date written at an offset other than Z, and
\* the workout had another date before: it was created at another time
C19_Witness ==
  /\ last.op = "PUT"
  /\ last.status = 200
  /\ LastBody.date # None
  /\ LastBody.date[1].offset # 0
  /\ Denotes(LastBody.date[1]) # CreatedAt(LastId)

(***************************************************************************)
(* C20: when two DELETE requests for the same stored workout are handled   *)
(* concurrently, in any interleaving of their existence checks and their   *)
(* deletes, one is answered 200 and the other 404; neither is answered 500.*)
(***************************************************************************)
C20_ConcurrentDeletes ==
  \A c, o \in Clients :
    (/\ c # o
     /\ inflight[c].pc = "done"
     /\ inflight[o].pc = "done"
     /\ inflight[c].op = "DELETE"
     /\ inflight[o].op = "DELETE"
     /\ inflight[c].workoutId = inflight[o].workoutId
     /\ inflight[c].status = 200)
    => inflight[o].status = 404

(***************************************************************************)
(* C21: when a PUT and a DELETE for the same stored workout are handled    *)
(* concurrently and the DELETE is answered 200, in every interleaving the  *)
(* PUT is answered 200 or 404, never 500, and once both have completed no  *)
(* Workout, Exercise or Set row of that workout is left in the store.      *)
(***************************************************************************)
C21_UpdateAgainstDelete ==
  \A c, o \in Clients :
    (/\ inflight[c].pc = "done"
     /\ inflight[o].pc = "done"
     /\ inflight[c].op = "PUT"
     /\ inflight[o].op = "DELETE"
     /\ inflight[c].workoutId = inflight[o].workoutId
     /\ inflight[o].status = 200)
    => /\ inflight[c].status \in {200, 404}
       /\ findUnique(db, inflight[o].workoutId[1]) = {}
       /\ ExercisesOf(db, inflight[o].workoutId[1]) = {}
       /\ \A x \in db.sets : \E e \in db.exercises : e.id = x.exerciseId

\* the exercise id client c's PUT names
Target(c) == inflight[c].req[1].exercises[1][1].id[1]

\* both clients' PUT requests for one workout have been answered 200, and they
\* name different exercises
BothUpdated ==
  /\ \A c \in Clients :
       /\ inflight[c].pc = "done"
       /\ inflight[c].op = "PUT"
       /\ inflight[c].status = 200
  /\ \A c, o \in Clients :
       /\ inflight[c].workoutId = inflight[o].workoutId
       /\ c # o => Target(c) # Target(o)

(***************************************************************************)
(* C25: when two PUT requests for one workout, each renaming a different   *)
(* exercise of it by id, interleave in any order and both are answered     *)
(* 200, both exercises carry their new names in the store.                 *)
(***************************************************************************)
C25_NoLostUpdate ==
  BothUpdated =>
    \A c \in Clients :
      \A e \in ExercisesOf(db, inflight[c].workoutId[1]) :
        e.id = Target(c) => e.name = inflight[c].req[1].exercises[1][1].name

\* both requests found the two exercises under their first names: each passed
\* findUnique before the other wrote
C25_Witness ==
  /\ BothUpdated
  /\ Cardinality(ExercisesOf(db, inflight["a"].workoutId[1])) = 2
  /\ \A c \in Clients :
       /\ Len(inflight[c].found[1].exercises) = 2
       /\ \A i \in 1..2 : inflight[c].found[1].exercises[i].name # "Deadlift"

\* every exercise of the last PUT body names an exercise of the workout by id,
\* with sets that all name sets of their exercise by id
AllMatched ==
  /\ last.op = "PUT"
  /\ last.req # None
  /\ LastExercises # <<>>
  /\ \A i \in 1..Len(LastExercises) : Matched(db, LastId, LastExercises[i])

(***************************************************************************)
(* C24: a PUT answered 200 whose exercises and sets all name rows of the   *)
(* workout by id, sent again to the same path with the same body, is       *)
(* answered 200 with the same body and leaves the store as the first       *)
(* application left it.                                                    *)
(***************************************************************************)
C24_UpdateIdempotent ==
  [][(/\ AllMatched
      /\ last.status = 200
      /\ Handles("PUT")
      /\ last'.seg = last.seg
      /\ last'.req = last.req)
     => /\ db' = db
        /\ last'.status = 200
        /\ last'.body = last.body]_vars

\* a PUT answered 200 supplied, by id, an exercise with a set of the workout,
\* and the store holds the supplied values
C24_Witness ==
  /\ AllMatched
  /\ last.status = 200
  /\ \E i \in 1..Len(LastExercises) :
       /\ Len(LastExercises[i].sets) > 0
       /\ \E x \in SetsOf(db, LastExercises[i].id[1]) :
            /\ x.id = LastExercises[i].sets[1].id[1]
            /\ x.reps = LastExercises[i].sets[1].reps
            /\ x.weight = LastExercises[i].sets[1].weight

\* the workout that owns set row s
OwnerOf(d, s) == {e.workoutId : e \in {x \in d.exercises : x.id = s.exerciseId}}

(***************************************************************************)
(* C23: a PUT for workout A leaves every exercise of another workout, and  *)
(* every set that is not supplied under its own exercise of A, in the      *)
(* store with its name, reps, weight and owner, whatever ids the body      *)
(* names.                                                                  *)
(***************************************************************************)
C23_ForeignRowsKept ==
  [][Handles("PUT") =>
       /\ \A e \in db.exercises :
            e.workoutId # LastId' => e \in db'.exercises
       /\ \A s \in db.sets :
            (OwnerOf(db, s) # {LastId'} \/ ~SuppliesSet(LastExercises', s))
              => s \in db'.sets /\ OwnerOf(db', s) = OwnerOf(db, s)]_vars

\* a PUT answered 200 named an exercise of another workout, and under it a
\* set of another exercise
C23_Witness ==
  /\ last.op = "PUT"
  /\ last.status = 200
  /\ \E e \in db.exercises :
       /\ e.workoutId # LastId
       /\ LastExercises[1].id = Some(e.id)
       /\ e.name # LastExercises[1].name
  /\ Len(LastExercises[1].sets) = 1
  /\ \E s \in db.sets :
       /\ LastExercises[1].sets[1].id = Some(s.id)
       /\ s.reps # LastExercises[1].sets[1].reps

(***************************************************************************)
(* C22: over any sequence of evaluations of lib/prisma in one process, at  *)
(* most one PrismaClient is constructed, and the handlers of all routes    *)
(* use that one instance.                                                  *)
(***************************************************************************)
C22_OneClient ==
  /\ node.constructed <= 1
  /\ Cardinality(node.used) <= 1
  /\ \A r, q \in Routes :
       (node.imported[r] # None /\ node.imported[q] # None)
         => node.imported[r] = node.imported[q]

\* outside production the instance is kept on global and every evaluation
\* exports it
OneClientInDevelopment ==
  node.env = Some("development") => C22_OneClient

(***************************************************************************)
(* C27: every POST the create form sends carries a non-empty entries list  *)
(* in which every entry has weight > 0, reps > 0 and a name of the         *)
(* predefined list, and is not answered 400.                               *)
(***************************************************************************)
C27_FormSendsValidEntries ==
  [][Handles("POST") =>
       /\ PostBodyValid(LastBody')
       /\ LastEntries' # <<>>
       /\ \A i \in 1..Len(LastEntries') :
            /\ LastEntries'[i].exercise # None
            /\ LastEntries'[i].exercise[1] \in exercises
            /\ LastEntries'[i].weight # None
            /\ LastEntries'[i].weight[1] > 0
            /\ LastEntries'[i].reps # None
            /\ LastEntries'[i].reps[1] > 0
       /\ last'.status # 400]_vars

\* the form sent an exercise with two sets and another exercise, after a
\* non-positive number had been typed and refused
C27_Witness ==
  /\ last.op = "POST"
  /\ last.status = 200
  /\ form.path = "/"
  /\ Len(form.workout) = 2
  /\ Len(form.workout[1].sets) = 2
  /\ form.currentSet.reps < 0

(***************************************************************************)
(* C28: a workout logged through the create form is stored with one        *)
(* Exercise per exercise of the form's summary, holding as many sets as    *)
(* that exercise had in the form.                                          *)
(***************************************************************************)
C28_StoredAsEntered ==
  (last.op = "POST" /\ last.status = 200 /\ form.path = "/")
    => LET wid == last.body.id
       IN /\ Cardinality(ExercisesOf(db, wid)) = Len(form.workout)
          /\ \A i \in 1..Len(form.workout) :
               \E e \in ExercisesOf(db, wid) :
                 /\ e.name = form.workout[i].exercise
                 /\ Cardinality(SetsOf(db, e.id)) = Len(form.workout[i].sets)

\* names, reps and weights of a list of exercises, without the ids
Shown(es) ==
  [i \in 1..Len(es) |->
     [name |-> es[i].name,
      sets |-> [j \in 1..Len(es[i].sets) |->
                  [reps |-> es[i].sets[j].reps, weight |-> es[i].sets[j].weight]]]]

(***************************************************************************)
(* C26: once the edit page's submit has been answered 200, GET for the     *)
(* workout returns exactly the exercises and sets the form showed at       *)
(* submit time, so what was removed in the form is no longer stored.       *)
(***************************************************************************)
C26_StoredMirrorsForm ==
  (edit.submitted /\ last.op = "PUT" /\ last.status = 200)
    => /\ GET(db, edit.id).status = 200
       /\ Shown(GET(db, edit.id).body.exercises) = Shown(edit.workout[1].exercises)

\* a submit answered 200 with everything that was fetched still in the form
SubmittedUnremoved ==
  /\ edit.submitted
  /\ last.op = "PUT"
  /\ last.status = 200
  /\ Len(edit.workout[1].exercises) = Cardinality(ExercisesOf(db, LastId))
  /\ \E i \in 1..Len(edit.workout[1].exercises) :
       edit.workout[1].exercises[i].name = "Deadlift"

====
